---- MODULE Spec2Model ----
(***************************************************************************)
(* Model of the location-inference engine of sbi_app/utils.py:             *)
(* process_kalman_cluster_fusion and the helpers it calls.                 *)
(*                                                                         *)
(* Units.  Coordinates are integers in thousandths of a degree, so the     *)
(* DBSCAN radius eps = 0.01 is 10.  Instants are integers in minutes since  *)
(* an epoch at midnight UTC; a timezone-aware datetime is a record         *)
(* [instant, offset] with the UTC offset in minutes, and its hour is       *)
(* ((instant + offset) \div 60) % 24.  Event weights are integers in       *)
(* tenths (upi 1.0 is 10).  Every average the code computes in floating    *)
(* point is an exact fraction [num, den] here, kept in lowest terms so     *)
(* that two fractions are equal as records iff they are equal as numbers.  *)
(* The accuracy field of an event is read by nothing and is left out.      *)
(*                                                                         *)
(* A record of a batch may lack event_type or lat; pandas fills the cell   *)
(* with NaN, or has no such column when no record has the key.  An         *)
(* exception raised inside the try block ends the run with the error       *)
(* object of the except clause.                                            *)
(***************************************************************************)
EXTENDS Integers, Sequences, FiniteSets, TLC

VARIABLES
    event_data,      \* the batch handed to process_kalman_cluster_fusion
    now,             \* the wall clock in minutes, what timezone.now() returns
    pc,              \* position of the run: "idle", "users", "done"
    df,              \* the DataFrame: the rows with their cluster column
    todo,            \* users the per-user loop still has to process
    user_results,    \* the list the per-user loop appends to
    result,          \* what the entry point returned
    prev,            \* what the previous run on the same batch returned
    runs,            \* the number of runs that have returned
    accounts,        \* the rows of the SBIUser table
    events,          \* the rows of the UserEvent table, in its default ordering
    processed,       \* the rows of the ProcessedData table
    view,            \* position and response of the process_data request
    stdout           \* what the last clear_data invocation wrote

site_vars == <<accounts, events, processed, view, stdout>>

vars == <<event_data, now, pc, df, todo, user_results, result, prev, runs,
          accounts, events, processed, view, stdout>>

-----------------------------------------------------------------------------
(* Bounds of the model *)

MaxEvents == 3
MaxSelectEvents == 4
MaxClockEvents == 2
MaxTicks == 1
MaxRuns == 2
MaxTypeEvents == 3
MaxWeightEvents == 2
MaxAnomalyEvents == 5
MaxRawEvents == 2
MaxChainEvents == 4
MaxStoredEvents == 2

(* Program constants *)

EpsMilli == 10
MinSamples == 2
TimeDecayHours == 72
NightBoostTenths == 12
NoBoostTenths == 10
NightFromHour == 22
NightToHour == 6
DefaultWeightTenths == 5
FallbackConfidenceTenths == 3
NoiseLabel == -1
IstOffsetMinutes == 330
NoClustersMinEvents == 5
MixedMaxTypes == 2
EventCutoffDays == 30
ProcessedCutoffDays == 7

-----------------------------------------------------------------------------
(* Arithmetic helpers: exact fractions *)

Abs(x) == IF x < 0 THEN -x ELSE x

RECURSIVE GCD(_, _)
GCD(a, b) == IF b = 0 THEN a ELSE GCD(b, a % b)

\* n/d in lowest terms, d > 0
Frac(n, d) ==
    LET g == GCD(Abs(n), d)
    IN  [num |-> n \div g, den |-> d \div g]

FracLe(a, b) == a.num * b.den <= b.num * a.den
FracLt(a, b) == a.num * b.den < b.num * a.den
FracMul(a, b) == Frac(a.num * b.num, a.den * b.den)
Zero == Frac(0, 1)
One == Frac(1, 1)
Tenths(n) == Frac(n, 10)

RECURSIVE SumSeq(_)
SumSeq(s) == IF s = <<>> THEN 0 ELSE Head(s) + SumSeq(Tail(s))

RECURSIVE DotSeq(_, _)
DotSeq(s, t) == IF s = <<>> THEN 0 ELSE Head(s) * Head(t) + DotSeq(Tail(s), Tail(t))

Range(s) == {s[i] : i \in 1..Len(s)}

\* Python's None and a present value, for the fields that may be None
None == <<>>
Some(x) == <<x>>

-----------------------------------------------------------------------------
(* pandas helpers *)

\* Series.unique(): the distinct values in order of first appearance
RECURSIVE UniqueFrom(_, _)
UniqueFrom(s, seen) ==
    IF s = <<>> THEN <<>>
    ELSE IF Head(s) \in seen THEN UniqueFrom(Tail(s), seen)
         ELSE <<Head(s)>> \o UniqueFrom(Tail(s), seen \cup {Head(s)})

Unique(s) == UniqueFrom(s, {})

Column(rows, f) == [i \in 1..Len(rows) |-> rows[i][f]]

\* df[df[f] == v] and df[df[f] != v]: the rows kept in their order
RowsEq(rows, f, v) == SelectSeq(rows, LAMBDA r : r[f] = v)
RowsNe(rows, f, v) == SelectSeq(rows, LAMBDA r : r[f] # v)

\* Series.mean() of an integer column
Mean(s) == Frac(SumSeq(s), Len(s))

-----------------------------------------------------------------------------
(* Event weights and the per-event weighting of process_user_data *)

event_weights(t) ==
    CASE t = "upi" -> 10
      [] t = "app_open" -> 8
      [] t = "login" -> 6
      [] OTHER -> DefaultWeightTenths

\* datetime.isoformat(): the local wall time and the offset it is written in
isoformat(dt) == [local |-> dt.instant + dt.offset, offset |-> dt.offset]

\* the decay without its floor at 0
time_decay_no_floor(current_time, event_time) ==
    Frac(TimeDecayHours * 60 - (current_time - event_time.instant), TimeDecayHours * 60)

\* time_diff = (current_time - event_time).total_seconds() / 3600, in minutes
\* here; time_decay = max(0, 1 - time_diff / 72)
time_diff(current_time, event_time) == current_time - event_time.instant

time_decay(current_time, event_time) ==
    LET d == TimeDecayHours * 60 - time_diff(current_time, event_time)
    IN  IF d < 0 THEN Zero ELSE Frac(d, TimeDecayHours * 60)

\* event_time.hour: the hour in the timezone the timestamp carries
event_hour(event_time) == ((event_time.instant + event_time.offset) \div 60) % 24

night_boost(event_time) ==
    IF event_hour(event_time) >= NightFromHour \/ event_hour(event_time) <= NightToHour
    THEN Tenths(NightBoostTenths) ELSE Tenths(NoBoostTenths)

\* the product without the night boost
final_weight_no_boost(current_time, row) ==
    FracMul(Tenths(event_weights(row.event_type)),
            time_decay(current_time, row.timestamp))

final_weight(current_time, row) ==
    FracMul(FracMul(Tenths(event_weights(row.event_type)),
                    time_decay(current_time, row.timestamp)),
            night_boost(row.timestamp))

weighted_event(current_time, row) ==
    [event_type |-> row.event_type,
     timestamp |-> isoformat(row.timestamp),
     lat |-> row.lat,
     lon |-> row.lon,
     cluster |-> row.cluster,
     base_weight |-> Tenths(event_weights(row.event_type)),
     time_decay |-> time_decay(current_time, row.timestamp),
     night_boost |-> night_boost(row.timestamp),
     final_weight |-> final_weight(current_time, row)]

-----------------------------------------------------------------------------
(* DBSCAN(eps=0.01, min_samples=2).fit_predict over the (lat, lon) pairs *)

WithinEps(a, b) ==
    (a.lat - b.lat) * (a.lat - b.lat) + (a.lon - b.lon) * (a.lon - b.lon)
        <= EpsMilli * EpsMilli

\* the eps-neighbourhood of point i, i itself included
Neighbours(ev, i) == {j \in 1..Len(ev) : WithinEps(ev[i], ev[j])}

\* one more point asked of a core point's neighbourhood
IsCore_three(ev, i) == Cardinality(Neighbours(ev, i)) >= MinSamples + 1

\* the point itself not counted among its neighbours
IsCore_excluding_self(ev, i) == Cardinality(Neighbours(ev, i) \ {i}) >= MinSamples

IsCore(ev, i) == Cardinality(Neighbours(ev, i)) >= MinSamples

\* the points density-reachable from the set S of points
RECURSIVE Expand(_, _)
Expand(ev, S) ==
    LET T == S \cup UNION {Neighbours(ev, i) : i \in {j \in S : IsCore(ev, j)}}
    IN  IF T = S THEN S ELSE Expand(ev, T)

\* the scan over the points in order: an unlabelled core point opens the
\* next cluster and labels every unlabelled point reachable from it
RECURSIVE Scan(_, _, _, _)
Scan(ev, i, labels, label_num) ==
    IF i > Len(ev) THEN labels
    ELSE IF labels[i] # NoiseLabel \/ ~IsCore(ev, i)
         THEN Scan(ev, i + 1, labels, label_num)
         ELSE LET C == Expand(ev, {i})
                  labelled == [j \in 1..Len(ev) |->
                                  IF j \in C /\ labels[j] = NoiseLabel
                                  THEN label_num ELSE labels[j]]
              IN  Scan(ev, i + 1, labelled, label_num + 1)

fit_predict(ev) == Scan(ev, 1, [j \in 1..Len(ev) |-> NoiseLabel], 0)

\* pd.to_datetime of an ISO-8601 string written with an offset: the instant
\* it denotes, kept in the offset it was written in
to_datetime(iso) == [instant |-> iso.local - iso.offset, offset |-> iso.offset]

\* the cell pandas fills in where a record has no value for a column
NaN == "nan"

\* pd.DataFrame(event_data): a column per key that any record has, NaN in
\* the rows of the records without it
cell(record, key) == IF key \in DOMAIN record THEN record[key] ELSE NaN

\* a column the DataFrame does not have: no record has the key
no_column(ev, key) == \A i \in 1..Len(ev) : key \notin DOMAIN ev[i]

\* a column holding NaN: some record has no value for the key
has_nan(ev, key) == \E i \in 1..Len(ev) : key \notin DOMAIN ev[i]

\* the timestamp column after pd.to_datetime holds one timezone only when
\* every string is written with the same offset
one_offset(ev) ==
    \A i, j \in 1..Len(ev) : ev[i].timestamp.offset = ev[j].timestamp.offset

\* the DataFrame after the cluster column is set; idx is the row index
DataFrame(ev) ==
    LET labels == fit_predict(ev)
    IN  [i \in 1..Len(ev) |->
            [idx |-> i,
             user_id |-> ev[i].user_id,
             event_type |-> cell(ev[i], "event_type"),
             timestamp |-> to_datetime(ev[i].timestamp),
             lat |-> ev[i].lat,
             lon |-> ev[i].lon,
             cluster |-> labels[i]]]

-----------------------------------------------------------------------------
(* process_user_data *)

\* Series.value_counts().to_dict(): each value present with its count
value_counts(s) ==
    [v \in Range(s) |-> Cardinality({i \in 1..Len(s) : s[i] = v})]

\* each event type present counted once, however many events have it
event_type_counts_distinct(rows) ==
    [v \in Range(Column(rows, "event_type")) \ {NaN} |-> 1]

\* df['event_type'].value_counts().to_dict(): value_counts drops NaN
event_type_counts(rows) ==
    value_counts(SelectSeq(Column(rows, "event_type"), LAMBDA v : v # NaN))

\* np.average(x, weights = w)
average(x, w) == Frac(DotSeq(x, w), SumSeq(w))

\* the weights the centroid and the confidence of a cluster are computed
\* with: event_weights.get(row['event_type'], 0.5) per row
centroid_weights(cluster_events) ==
    [i \in 1..Len(cluster_events) |-> event_weights(cluster_events[i].event_type)]

\* the rows of `clusters` one cluster prediction is computed over
cluster_rows(clusters, cluster_id) == RowsEq(clusters, "cluster", cluster_id)

\* one entry of cluster_predictions
cluster_prediction(clusters, cluster_id) ==
    LET cluster_events == cluster_rows(clusters, cluster_id)
        weights == centroid_weights(cluster_events)
    IN  [cluster_id |-> cluster_id,
         predicted_lat |-> average(Column(cluster_events, "lat"), weights),
         predicted_lon |-> average(Column(cluster_events, "lon"), weights),
         event_count |-> Len(cluster_events),
         confidence |-> Frac(SumSeq(weights), 10 * Len(weights))]

\* max(cluster_predictions, key = confidence): the first entry of the list
\* that no other entry exceeds
RECURSIVE MaxFrom(_, _)
MaxFrom(best, rest) ==
    IF rest = <<>> THEN best
    ELSE IF FracLt(best.confidence, Head(rest).confidence)
         THEN MaxFrom(Head(rest), Tail(rest))
         ELSE MaxFrom(best, Tail(rest))

\* the comparison written >=: the last of the entries no other exceeds
RECURSIVE MaxFromLast(_, _)
MaxFromLast(best, rest) ==
    IF rest = <<>> THEN best
    ELSE IF FracLe(best.confidence, Head(rest).confidence)
         THEN MaxFromLast(Head(rest), Tail(rest))
         ELSE MaxFromLast(best, Tail(rest))

max_confidence_last(preds) == MaxFromLast(Head(preds), Tail(preds))

max_confidence(preds) == MaxFrom(Head(preds), Tail(preds))

\* the noise filter forgotten
non_noise_keep_all(rows) == rows

\* user_data[user_data['cluster'] != -1]
non_noise(rows) == RowsNe(rows, "cluster", NoiseLabel)

cluster_predictions_of(user_data) ==
    LET clusters == non_noise(user_data)
        ids == Unique(Column(clusters, "cluster"))
    IN  [k \in 1..Len(ids) |-> cluster_prediction(clusters, ids[k])]

primary_prediction_of(cluster_predictions) ==
    IF cluster_predictions # <<>>
    THEN Some(max_confidence(cluster_predictions))
    ELSE None

RECURSIVE MinSeq(_)
MinSeq(s) == IF Len(s) = 1 THEN s[1]
             ELSE LET m == MinSeq(Tail(s)) IN IF s[1] <= m THEN s[1] ELSE m

RECURSIVE MaxSeq(_)
MaxSeq(s) == IF Len(s) = 1 THEN s[1]
             ELSE LET m == MaxSeq(Tail(s)) IN IF s[1] >= m THEN s[1] ELSE m

\* the timestamp column's min() or max(), as isoformat() writes it (the
\* column has one timezone)
time_range_end(user_data, instant) ==
    isoformat([instant |-> instant, offset |-> user_data[1].timestamp.offset])

\* the distinct labels of the user's rows counted with the noise label
clusters_involved_with_noise(user_data) ==
    Cardinality(Range(Column(user_data, "cluster")))

clusters_involved_of(user_data) ==
    Cardinality(Range(Column(user_data, "cluster")))
        - (IF NoiseLabel \in Range(Column(user_data, "cluster")) THEN 1 ELSE 0)

\* the weighted events listed from the user's last row to the first
process_user_data_reversed(user_data, current_time) ==
    LET cluster_predictions == cluster_predictions_of(user_data)
        instants == [i \in 1..Len(user_data) |-> user_data[i].timestamp.instant]
    IN  [user_id |-> user_data[1].user_id,
         total_events |-> Len(user_data),
         event_types |-> event_type_counts(user_data),
         clusters_involved |-> clusters_involved_of(user_data),
         weighted_events |->
             [i \in 1..Len(user_data) |->
                 weighted_event(current_time, user_data[Len(user_data) + 1 - i])],
         cluster_predictions |-> cluster_predictions,
         primary_prediction |-> primary_prediction_of(cluster_predictions),
         time_range |->
             [first_event |-> time_range_end(user_data, MinSeq(instants)),
              last_event |-> time_range_end(user_data, MaxSeq(instants))]]

process_user_data(user_data, current_time) ==
    LET cluster_predictions == cluster_predictions_of(user_data)
        instants == [i \in 1..Len(user_data) |-> user_data[i].timestamp.instant]
    IN  [user_id |-> user_data[1].user_id,
         total_events |-> Len(user_data),
         event_types |-> event_type_counts(user_data),
         clusters_involved |-> clusters_involved_of(user_data),
         weighted_events |->
             [i \in 1..Len(user_data) |-> weighted_event(current_time, user_data[i])],
         cluster_predictions |-> cluster_predictions,
         primary_prediction |-> primary_prediction_of(cluster_predictions),
         time_range |->
             [first_event |-> time_range_end(user_data, MinSeq(instants)),
              last_event |-> time_range_end(user_data, MaxSeq(instants))]]

-----------------------------------------------------------------------------
(* The report helpers *)

\* format_timestamp_ist: the instant converted to Asia/Kolkata, isoformat()
format_timestamp_ist(instant) ==
    isoformat([instant |-> instant, offset |-> IstOffsetMinutes])

\* the key f'cluster_{cluster_id}' of a cluster_info entry
cluster_key(cluster_id) == <<"cluster_", cluster_id>>

\* the loop over the labels without the skip of the noise label
reported_clusters_with_noise(rows) == Unique(Column(rows, "cluster"))

\* the cluster ids get_cluster_info and detect_anomalies loop over
reported_clusters(rows) ==
    SelectSeq(Unique(Column(rows, "cluster")), LAMBDA c : c # NoiseLabel)

\* one entry of cluster_info
cluster_entry(rows, cluster_id) ==
    LET cluster_data == RowsEq(rows, "cluster", cluster_id)
    IN  [cluster_id |-> cluster_id,
         event_count |-> Len(cluster_data),
         user_count |-> Len(Unique(Column(cluster_data, "user_id"))),
         event_types |-> event_type_counts(cluster_data),
         centroid |-> [lat |-> Mean(Column(cluster_data, "lat")),
                       lon |-> Mean(Column(cluster_data, "lon"))],
         bounding_box |-> [min_lat |-> MinSeq(Column(cluster_data, "lat")),
                           max_lat |-> MaxSeq(Column(cluster_data, "lat")),
                           min_lon |-> MinSeq(Column(cluster_data, "lon")),
                           max_lon |-> MaxSeq(Column(cluster_data, "lon"))],
         users |-> Unique(Column(cluster_data, "user_id"))]

get_cluster_info(rows) ==
    LET ids == reported_clusters(rows)
    IN  [k \in {cluster_key(ids[i]) : i \in 1..Len(ids)} |-> cluster_entry(rows, k[2])]

\* the event threshold compared with > for >=
no_clusters_anomalies_gt(rows) ==
    LET users == Unique(Column(rows, "user_id"))
        flagged == SelectSeq(users, LAMBDA u :
                       /\ Len(RowsEq(rows, "user_id", u)) > NoClustersMinEvents
                       /\ Len(non_noise(RowsEq(rows, "user_id", u))) = 0)
    IN  [i \in 1..Len(flagged) |->
            [type |-> "no_clusters",
             user_id |-> flagged[i],
             event_count |-> Len(RowsEq(rows, "user_id", flagged[i]))]]

\* detect_anomalies: the no_clusters entries in user order, then the
\* mixed_event_cluster entries in cluster order (the description text is
\* left out)
no_clusters_anomalies(rows) ==
    LET users == Unique(Column(rows, "user_id"))
        flagged == SelectSeq(users, LAMBDA u :
                       /\ Len(RowsEq(rows, "user_id", u)) >= NoClustersMinEvents
                       /\ Len(non_noise(RowsEq(rows, "user_id", u))) = 0)
    IN  [i \in 1..Len(flagged) |->
            [type |-> "no_clusters",
             user_id |-> flagged[i],
             event_count |-> Len(RowsEq(rows, "user_id", flagged[i]))]]

\* the number of event types compared with >= for >
mixed_cluster_anomalies_ge(rows) ==
    LET types(c) == Unique(Column(RowsEq(rows, "cluster", c), "event_type"))
        flagged == SelectSeq(reported_clusters(rows), LAMBDA c :
                       "upi" \in Range(types(c)) /\ Len(types(c)) >= MixedMaxTypes)
    IN  [i \in 1..Len(flagged) |->
            [type |-> "mixed_event_cluster",
             cluster_id |-> flagged[i],
             event_types |-> types(flagged[i])]]

mixed_cluster_anomalies(rows) ==
    LET types(c) == Unique(Column(RowsEq(rows, "cluster", c), "event_type"))
        flagged == SelectSeq(reported_clusters(rows), LAMBDA c :
                       "upi" \in Range(types(c)) /\ Len(types(c)) > MixedMaxTypes)
    IN  [i \in 1..Len(flagged) |->
            [type |-> "mixed_event_cluster",
             cluster_id |-> flagged[i],
             event_types |-> types(flagged[i])]]

detect_anomalies(rows) == no_clusters_anomalies(rows) \o mixed_cluster_anomalies(rows)

RECURSIVE FracSum(_)
FracSum(s) ==
    IF s = <<>> THEN Zero
    ELSE LET r == FracSum(Tail(s))
         IN  Frac(Head(s).num * r.den + r.num * Head(s).den, Head(s).den * r.den)

\* the sum of the confidences, not divided by their number
calculate_overall_confidence_sum(results) ==
    IF results = <<>> THEN Zero
    ELSE FracSum([i \in 1..Len(results) |->
                     IF results[i].primary_prediction # None
                     THEN results[i].primary_prediction[1].confidence
                     ELSE Zero])

\* the mean taken over the users that have a primary prediction only
calculate_overall_confidence_skip(results) ==
    LET with_primary == SelectSeq(results, LAMBDA r : r.primary_prediction # None)
        total == FracSum([i \in 1..Len(with_primary) |->
                             with_primary[i].primary_prediction[1].confidence])
    IN  IF with_primary = <<>> THEN Zero
        ELSE Frac(total.num, total.den * Len(with_primary))

calculate_overall_confidence(results) ==
    IF results = <<>> THEN Zero
    ELSE LET confidences == [i \in 1..Len(results) |->
                                IF results[i].primary_prediction # None
                                THEN results[i].primary_prediction[1].confidence
                                ELSE Zero]
             total == FracSum(confidences)
         IN  Frac(total.num, total.den * Len(confidences))

\* the fallback averaged over every row, the filter on the user forgotten
location_prediction_all_rows(rows, user_result, current_time) ==
    IF user_result.primary_prediction # None
    THEN LET pred == user_result.primary_prediction[1]
         IN  [predicted_lat |-> pred.predicted_lat,
              predicted_lon |-> pred.predicted_lon,
              confidence |-> pred.confidence,
              cluster_id |-> Some(pred.cluster_id),
              event_count |-> pred.event_count,
              prediction_type |-> "cluster_based",
              timestamp |-> format_timestamp_ist(current_time)]
    ELSE [predicted_lat |-> Mean(Column(rows, "lat")),
          predicted_lon |-> Mean(Column(rows, "lon")),
          confidence |-> Tenths(FallbackConfidenceTenths),
          cluster_id |-> None,
          event_count |-> Len(rows),
          prediction_type |-> "simple_average",
          timestamp |-> format_timestamp_ist(current_time)]

\* the entry taken from the user's first cluster prediction, not the primary
location_prediction_first_cluster(rows, user_result, current_time) ==
    IF user_result.primary_prediction # None
    THEN LET pred == user_result.cluster_predictions[1]
         IN  [predicted_lat |-> pred.predicted_lat,
              predicted_lon |-> pred.predicted_lon,
              confidence |-> pred.confidence,
              cluster_id |-> Some(pred.cluster_id),
              event_count |-> pred.event_count,
              prediction_type |-> "cluster_based",
              timestamp |-> format_timestamp_ist(current_time)]
    ELSE LET user_data == RowsEq(rows, "user_id", user_result.user_id)
         IN  [predicted_lat |-> Mean(Column(user_data, "lat")),
              predicted_lon |-> Mean(Column(user_data, "lon")),
              confidence |-> Tenths(FallbackConfidenceTenths),
              cluster_id |-> None,
              event_count |-> Len(user_data),
              prediction_type |-> "simple_average",
              timestamp |-> format_timestamp_ist(current_time)]

location_prediction(rows, user_result, current_time) ==
    IF user_result.primary_prediction # None
    THEN LET pred == user_result.primary_prediction[1]
         IN  [predicted_lat |-> pred.predicted_lat,
              predicted_lon |-> pred.predicted_lon,
              confidence |-> pred.confidence,
              cluster_id |-> Some(pred.cluster_id),
              event_count |-> pred.event_count,
              prediction_type |-> "cluster_based",
              timestamp |-> format_timestamp_ist(current_time)]
    ELSE LET user_data == RowsEq(rows, "user_id", user_result.user_id)
         IN  [predicted_lat |-> Mean(Column(user_data, "lat")),
              predicted_lon |-> Mean(Column(user_data, "lon")),
              confidence |-> Tenths(FallbackConfidenceTenths),
              cluster_id |-> None,
              event_count |-> Len(user_data),
              prediction_type |-> "simple_average",
              timestamp |-> format_timestamp_ist(current_time)]

generate_location_predictions(rows, results, current_time) ==
    [u \in {results[i].user_id : i \in 1..Len(results)} |->
        LET i == CHOOSE j \in 1..Len(results) :
                     /\ results[j].user_id = u
                     /\ \A k \in 1..Len(results) : results[k].user_id = u => k <= j
        IN  location_prediction(rows, results[i], current_time)]

\* the distinct labels counted with the noise label among them
total_clusters_with_noise(rows) == Cardinality(Range(Column(rows, "cluster")))

total_clusters_of(rows) ==
    Cardinality(Range(Column(rows, "cluster")))
        - (IF NoiseLabel \in Range(Column(rows, "cluster")) THEN 1 ELSE 0)

summary_of(rows, results, current_time) ==
    [total_users |-> Len(Unique(Column(rows, "user_id"))),
     total_events |-> Len(rows),
     total_clusters |-> total_clusters_of(rows),
     noise_points |-> Len(RowsEq(rows, "cluster", NoiseLabel)),
     event_distribution |-> event_type_counts(rows),
     cluster_distribution |->
         IF total_clusters_of(rows) > 0
         THEN value_counts(Column(non_noise(rows), "cluster"))
         ELSE <<>>,
     processing_timestamp |-> format_timestamp_ist(current_time),
     anomalies |-> detect_anomalies(rows),
     confidence |-> calculate_overall_confidence(results)]

algorithm_parameters ==
    [dbscan_eps |-> EpsMilli,
     dbscan_min_samples |-> MinSamples,
     event_weights |-> [t \in {"upi", "app_open", "login"} |-> event_weights(t)],
     time_decay_hours |-> TimeDecayHours,
     night_boost_factor |-> NightBoostTenths]

report(rows, results, current_time) ==
    [summary |-> summary_of(rows, results, current_time),
     user_results |-> results,
     cluster_info |-> get_cluster_info(rows),
     location_predictions |-> generate_location_predictions(rows, results, current_time),
     algorithm_parameters |-> algorithm_parameters]

no_data == [error |-> "No data to process"]

\* the error returned together with an empty list of user results
processing_failed_partial(e) == [error |-> "Processing failed: " \o e, user_results |-> <<>>]

\* the except clause: {'error': f'Processing failed: {str(e)}'}
processing_failed(e) == [error |-> "Processing failed: " \o e]

\* str(e) of the exception the .dt accessor or pd.to_datetime raises on a
\* timestamp column of mixed offsets; which one depends on the pandas
\* release
mixed_offset_errors ==
    {"Can only use .dt accessor with datetimelike values",
     "Mixed timezones detected. Pass utc=True in to_datetime"}

\* str(e) of the ValueError DBSCAN raises on a NaN coordinate; the text
\* depends on the scikit-learn release
nan_input_errors ==
    {"Input contains NaN, infinity or a value too large for dtype('float64').",
     "Input X contains NaN."}

\* str(e) of the KeyError a row lookup raises on a column the DataFrame
\* does not have
key_error(key) == "'" \o key \o "'"

\* str(e) of the KeyError df[['lat', 'lon']] raises on a column the
\* DataFrame does not have
index_error(key) == "\"['" \o key \o "'] not in index\""

\* the exceptions the code before the user loop can raise on the batch
entry_errors(ev) ==
    IF ~one_offset(ev) THEN mixed_offset_errors
    ELSE IF no_column(ev, "lat") THEN {index_error("lat")}
    ELSE IF has_nan(ev, "lat") THEN nan_input_errors
    ELSE {}

-----------------------------------------------------------------------------------------------------------------------------------------------------
(* The batches the model runs the engine on *)

Users == {"U1", "U2"}
EventTypes == {"upi", "login"}

\* two points 0.0092 degrees apart and a third far from both
Near == {[lat |-> 0, lon |-> 0], [lat |-> 6, lon |-> 7]}
Far == {[lat |-> 40, lon |-> 40]}

\* the wall clock when the model starts: midnight UTC of day 10
StartNow == 10 * 24 * 60

\* event instants: 100 hours before StartNow (20:00 UTC, past the 72 hour
\* window) and 1 hour before it (23:00 UTC)
Expired == StartNow - 100 * 60
Recent == StartNow - 60

Event(u, t, p, s) ==
    [user_id |-> u,
     event_type |-> t,
     timestamp |-> isoformat([instant |-> s, offset |-> 0]),
     lat |-> p.lat,
     lon |-> p.lon]

EventsOver(points, stamps) ==
    {Event(u, t, p, s) : u \in Users, t \in EventTypes, p \in points, s \in stamps}

BatchesOver(pool, n) == UNION {[1..k -> pool] : k \in 0..n}

\* every batch of up to MaxEvents events over all points and instants
Batches == BatchesOver(EventsOver(Near \cup Far, {Expired, Recent}), MaxEvents)

\* longer batches, over two separate points and one instant: the batches in
\* which one user has events in two clusters
SelectBatches ==
    BatchesOver(EventsOver({[lat |-> 0, lon |-> 0]} \cup Far, {Recent}), MaxSelectEvents)

\* short batches, for the runs during and between which the clock advances
ClockBatches == BatchesOver(EventsOver(Near \cup Far, {Expired, Recent}), MaxClockEvents)

\* the three event types of UserEvent.EVENT_TYPES and one the engine has no
\* weight for
AllEventTypes == {"upi", "app_open", "login", "transfer"}

\* the offsets timestamps are written in: UTC (UserEvent.to_dict) and IST
\* (find_user_location, through format_timestamp_ist)
Offsets == {0, IstOffsetMinutes}

\* an event whose timestamp is written in the offset o
EventAt(u, t, p, s, o) ==
    [user_id |-> u,
     event_type |-> t,
     timestamp |-> isoformat([instant |-> s, offset |-> o]),
     lat |-> p.lat,
     lon |-> p.lon]

\* batches over every event type, at two separate points
TypeBatches ==
    BatchesOver({Event(u, t, p, Recent) :
                    u \in Users, t \in AllEventTypes, p \in {[lat |-> 0, lon |-> 0]} \cup Far},
                MaxTypeEvents)

\* event instants around the 72 hour window: an hour after StartNow, at
\* StartNow, 6 hours before it (18:00 UTC, 23:30 IST), 36 hours before it
\* (12:00 UTC, 17:30 IST), 72 hours before it, and Expired (20:00 UTC,
\* 01:30 IST)
Future == StartNow + 60
Evening == StartNow - 6 * 60
HalfWay == StartNow - 36 * 60
WindowEnd == StartNow - 72 * 60
WeightStamps == {Future, StartNow, Evening, HalfWay, WindowEnd, Expired}

\* batches of one user's events at one point, over every event type, the
\* instants of WeightStamps and both offsets
WeightBatches ==
    BatchesOver({EventAt("U1", t, [lat |-> 0, lon |-> 0], s, o) :
                    t \in AllEventTypes, s \in WeightStamps, o \in Offsets},
                MaxWeightEvents)

\* points a degree apart from each other
Apart == {[lat |-> 1000 * k, lon |-> 0] : k \in 0..5}

\* batches in which U1 has events at the points of Apart and U2 at the
\* first of them
AnomalyBatches ==
    BatchesOver({Event("U1", "login", p, Recent) : p \in Apart}
                    \cup {Event("U2", "login", [lat |-> 0, lon |-> 0], Recent)},
                MaxAnomalyEvents)

\* three points in a row 0.008 degrees apart, the outer two 0.016 apart, and
\* a fourth far from them
Chain == {[lat |-> 0, lon |-> 0], [lat |-> 8, lon |-> 0], [lat |-> 16, lon |-> 0]}

\* batches of login events at the points of Chain and Far
ChainBatches ==
    BatchesOver({Event(u, "login", p, Recent) : u \in Users, p \in Chain \cup Far},
                MaxChainEvents)

\* a record without the keys of K
without(record, K) == [k \in DOMAIN record \ K |-> record[k]]

\* batches of records as a caller may pass them: complete, without
\* event_type or without lat, the timestamp written in either offset
RawBatches ==
    BatchesOver({without(EventAt(u, t, [lat |-> 0, lon |-> 0], Recent, o), K) :
                    u \in Users, t \in EventTypes, o \in Offsets,
                    K \in {{}, {"event_type"}, {"lat"}}},
                MaxRawEvents)

-----------------------------------------------------------------------------
(* The state machine: one run of process_kalman_cluster_fusion is Start,   *)
(* one ProcessUser per user of the batch, then Finish.                     *)

InitWith(batches) ==
    /\ event_data \in batches
    /\ now = StartNow
    /\ pc = "idle"
    /\ df = <<>>
    /\ todo = <<>>
    /\ user_results = <<>>
    /\ result = None
    /\ prev = None
    /\ runs = 0
    /\ accounts = {}
    /\ events = <<>>
    /\ processed = <<>>
    /\ view = [at |-> "idle", response |-> None]
    /\ stdout = <<>>

Init == InitWith(Batches)

\* the entry without its empty check
Start_no_empty_check ==
    /\ pc = "idle"
    /\ df' = DataFrame(event_data)
    /\ todo' = Unique(Column(event_data, "user_id"))
    /\ pc' = "users"
    /\ user_results' = <<>>
    /\ UNCHANGED <<event_data, now, result, prev, runs>>
    /\ UNCHANGED site_vars

\* the entry of process_kalman_cluster_fusion: the empty check, the
\* DataFrame, the timestamp parse and DBSCAN
Start ==
    /\ pc = "idle"
    /\ IF event_data = <<>>
       THEN /\ result' = no_data
            /\ pc' = "done"
            /\ runs' = runs + 1
            /\ UNCHANGED <<df, todo>>
       ELSE IF entry_errors(event_data) # {}
       THEN /\ \E e \in entry_errors(event_data) : result' = processing_failed(e)
            /\ pc' = "done"
            /\ runs' = runs + 1
            /\ UNCHANGED <<df, todo>>
       ELSE /\ df' = DataFrame(event_data)
            /\ todo' = Unique(Column(event_data, "user_id"))
            /\ pc' = "users"
            /\ UNCHANGED <<result, runs>>
    /\ user_results' = <<>>
    /\ UNCHANGED <<event_data, now, prev>>
    /\ UNCHANGED site_vars

\* the user loop with the exception of a row lookup leaving the function
ProcessUser_uncaught ==
    /\ pc = "users"
    /\ todo # <<>>
    /\ IF no_column(event_data, "event_type")
       THEN /\ pc' = "raised"
            /\ UNCHANGED <<todo, user_results, result, runs>>
       ELSE /\ user_results' = Append(user_results,
                                      process_user_data(RowsEq(df, "user_id", Head(todo)), now))
            /\ todo' = Tail(todo)
            /\ UNCHANGED <<pc, result, runs>>
    /\ UNCHANGED <<event_data, now, df, prev>>
    /\ UNCHANGED site_vars

\* one iteration of the loop over df['user_id'].unique(); the lookup
\* event['event_type'] raises KeyError when the column does not exist, and
\* the except clause of process_kalman_cluster_fusion returns it
ProcessUser ==
    /\ pc = "users"
    /\ todo # <<>>
    /\ IF no_column(event_data, "event_type")
       THEN /\ result' = processing_failed(key_error("event_type"))
            /\ pc' = "done"
            /\ runs' = runs + 1
            /\ UNCHANGED <<todo, user_results>>
       ELSE /\ user_results' = Append(user_results,
                                      process_user_data(RowsEq(df, "user_id", Head(todo)), now))
            /\ todo' = Tail(todo)
            /\ UNCHANGED <<pc, result, runs>>
    /\ UNCHANGED <<event_data, now, df, prev>>
    /\ UNCHANGED site_vars

\* the summary, cluster_info, location_predictions and the return
Finish ==
    /\ pc = "users"
    /\ todo = <<>>
    /\ result' = report(df, user_results, now)
    /\ pc' = "done"
    /\ runs' = runs + 1
    /\ UNCHANGED <<event_data, now, df, todo, user_results, prev>>
    /\ UNCHANGED site_vars

Next == Start \/ ProcessUser \/ Finish

Spec == Init /\ [][Next]_vars

\* the same runs over the batches of SelectBatches
InitSelect == InitWith(SelectBatches)

SpecSelect == InitSelect /\ [][Next]_vars

\* the same runs over the batches of TypeBatches
InitTypes == InitWith(TypeBatches)

SpecTypes == InitTypes /\ [][Next]_vars

\* the same runs over the batches of WeightBatches
InitWeights == InitWith(WeightBatches)

SpecWeights == InitWeights /\ [][Next]_vars

\* the same runs over the batches of AnomalyBatches
InitAnomaly == InitWith(AnomalyBatches)

SpecAnomaly == InitAnomaly /\ [][Next]_vars

\* the same runs over the batches of ChainBatches
InitChain == InitWith(ChainBatches)

SpecChain == InitChain /\ [][Next]_vars

\* the same runs over the batches of RawBatches
InitRaw == InitWith(RawBatches)

SpecRaw == InitRaw /\ [][Next]_vars

\* the wall clock advances by a minute, during a run or between two runs
Tick ==
    /\ now < StartNow + MaxTicks
    /\ now' = now + 1
    /\ UNCHANGED <<event_data, pc, df, todo, user_results, result, prev, runs>>
    /\ UNCHANGED site_vars

\* the caller runs the engine again on the same batch
Rerun ==
    /\ pc = "done"
    /\ runs < MaxRuns
    /\ prev' = result
    /\ result' = None
    /\ pc' = "idle"
    /\ df' = <<>>
    /\ todo' = <<>>
    /\ user_results' = <<>>
    /\ UNCHANGED <<event_data, now, runs>>
    /\ UNCHANGED site_vars

InitClock == InitWith(ClockBatches)

NextClock == Start \/ ProcessUser \/ Finish \/ Tick \/ Rerun

SpecClock == InitClock /\ [][NextClock]_vars

-----------------------------------------------------------------------------
(* The site around the engine: the tables, the clear_data command, the two *)
(* admin posts that delete, and the process_data view.  The counts in the  *)
(* messages are left out.                                                  *)

engine_vars == <<event_data, now, pc, df, todo, user_results, result, prev, runs>>

\* a row of SBIUser
Account(id, su, au) == [aadhaar_number |-> id, is_superuser |-> su, is_authority |-> au]

AccountPool ==
    {Account("U1", FALSE, FALSE), Account("A1", FALSE, TRUE),
     Account("S1", TRUE, FALSE), Account("S2", TRUE, TRUE)}

\* instants past the cutoffs of --old: 31 days and 8 days before StartNow
Ancient == StartNow - 31 * 24 * 60
LastWeek == StartNow - 8 * 24 * 60

\* a row of UserEvent
StoredEvent(u, s) ==
    [user |-> u, event_type |-> "upi", timestamp |-> s, latitude |-> 0, longitude |-> 0]

\* Meta.ordering = ['-timestamp']
Descending(rows) ==
    \A i, j \in 1..Len(rows) : i < j => rows[i].timestamp >= rows[j].timestamp

\* the tables of events whose users are among the accounts
EventTables(accts) ==
    {rows \in BatchesOver({StoredEvent(a.aadhaar_number, s) :
                               a \in {b \in accts : b.aadhaar_number \in {"U1", "A1"}},
                               s \in {Ancient, Recent}},
                          MaxStoredEvents) : Descending(rows)}

\* a row of ProcessedData stored by an earlier request
StoredAnalysis(s) ==
    [processed_at |-> s, total_events |-> 1, total_users |-> 1, analysis_results |-> <<>>]

ProcessedTables == {<<>>, <<StoredAnalysis(LastWeek)>>, <<StoredAnalysis(Recent)>>}

\* UserEvent.to_dict
to_dict(event) ==
    Event(event.user, event.event_type,
          [lat |-> event.latitude, lon |-> event.longitude], event.timestamp)

\* the command line of clear_data and the answers typed at its prompt
Options == [{"all", "users", "events", "processed", "old", "force"} -> BOOLEAN]
Answers == {"yes", "Y", "no", ""}

\* str.lower()
lower(answer) ==
    CASE answer = "Y" -> "y"
      [] answer = "YES" -> "yes"
      [] OTHER -> answer

\* the filter on is_superuser alone
regular_non_superuser(accts) == {a \in accts : ~a.is_superuser}

\* SBIUser.objects.filter(is_superuser=False, is_authority=False)
regular(accts) == {a \in accts : ~a.is_superuser /\ ~a.is_authority}

\* the events left when accounts are deleted: on_delete=models.CASCADE
cascade(rows, kept) ==
    SelectSeq(rows, LAMBDA e : e.user \in {a.aadhaar_number : a \in kept})

InitSite ==
    /\ event_data = <<>>
    /\ now = StartNow
    /\ pc = "off"
    /\ df = <<>>
    /\ todo = <<>>
    /\ user_results = <<>>
    /\ result = None
    /\ prev = None
    /\ runs = 0
    /\ accounts \in SUBSET AccountPool
    /\ events \in EventTables(accounts)
    /\ processed \in ProcessedTables
    /\ view = [at |-> "idle", response |-> None]
    /\ stdout = <<>>

\* Command.handle of clear_data: the check for a deletion flag, the
\* confirmation unless --force, the first of --all, --users, --events,
\* --processed, --old that is set, and the closing note
handle(options, confirm) ==
    /\ IF ~(options["all"] \/ options["users"] \/ options["events"]
              \/ options["processed"] \/ options["old"])
       THEN /\ stdout' = <<"Please specify what to delete">>
            /\ UNCHANGED <<accounts, events, processed>>
       ELSE IF ~options["force"] /\ lower(confirm) \notin {"yes", "y"}
       THEN /\ stdout' = <<"Operation cancelled.">>
            /\ UNCHANGED <<accounts, events, processed>>
       ELSE IF options["all"]
       THEN /\ accounts' = accounts \ regular(accounts)
            /\ events' = <<>>
            /\ processed' = <<>>
            /\ stdout' = <<"Successfully cleared all data", "Note: preserved">>
       ELSE IF options["users"]
       THEN /\ accounts' = accounts \ regular(accounts)
            /\ events' = cascade(events, accounts \ regular(accounts))
            /\ stdout' = <<"Deleted regular users", "Note: preserved">>
            /\ UNCHANGED processed
       ELSE IF options["events"]
       THEN /\ events' = <<>>
            /\ stdout' = <<"Deleted events", "Note: preserved">>
            /\ UNCHANGED <<accounts, processed>>
       ELSE IF options["processed"]
       THEN /\ processed' = <<>>
            /\ stdout' = <<"Deleted processed data records", "Note: preserved">>
            /\ UNCHANGED <<accounts, events>>
       ELSE /\ events' = SelectSeq(events, LAMBDA e :
                             ~(e.timestamp < now - EventCutoffDays * 24 * 60))
            /\ processed' = SelectSeq(processed, LAMBDA r :
                                ~(r.processed_at < now - ProcessedCutoffDays * 24 * 60))
            /\ stdout' = <<"Cleaned old data", "Note: preserved">>
            /\ UNCHANGED accounts
    /\ UNCHANGED <<engine_vars, view>>

\* one invocation of the clear_data command
clear_data == \E options \in Options, confirm \in Answers : handle(options, confirm)

\* SBIAdminSite.clear_all_data_view, POST
clear_all_data_view ==
    /\ accounts' = accounts \ regular(accounts)
    /\ events' = <<>>
    /\ processed' = <<>>
    /\ UNCHANGED <<engine_vars, view, stdout>>

\* SBIUserAdmin.delete_all_users, POST
delete_all_users ==
    /\ accounts' = accounts \ regular(accounts)
    /\ events' = cascade(events, accounts \ regular(accounts))
    /\ UNCHANGED <<engine_vars, processed, view, stdout>>

NextAdmin == clear_data \/ clear_all_data_view \/ delete_all_users

SpecAdmin == InitSite /\ [][NextAdmin]_vars

\* the responses of process_data, the AJAX JsonResponse or the message and
\* redirect
failure(text) == Some([success |-> FALSE, message |-> text])
success(text) == Some([success |-> TRUE, message |-> text])

\* process_data up to the check events.exists(): the permission check and
\* the first query
process_data_begin ==
    /\ view.at = "idle"
    /\ \E user \in accounts :
          IF ~user.is_authority /\ ~user.is_superuser
          THEN view' = [at |-> "returned", response |-> failure("Unauthorized")]
          ELSE IF events = <<>>
          THEN view' = [at |-> "returned",
                        response |-> failure("No events found to process.")]
          ELSE view' = [at |-> "checked", response |-> None]
    /\ UNCHANGED <<engine_vars, accounts, events, processed, stdout>>

\* the loop over the events, which queries the table again, and the call
\* of process_kalman_cluster_fusion
process_data_call ==
    /\ view.at = "checked"
    /\ event_data' = [i \in 1..Len(events) |-> to_dict(events[i])]
    /\ pc' = "idle"
    /\ view' = [view EXCEPT !.at = "called"]
    /\ UNCHANGED <<now, df, todo, user_results, result, prev, runs>>
    /\ UNCHANGED <<accounts, events, processed, stdout>>

\* after the call: ProcessedData.objects.create and the success response
process_data_store ==
    /\ view.at = "called"
    /\ pc = "done"
    /\ processed' = <<[processed_at |-> now,
                       total_events |-> Len(event_data),
                       total_users |-> Cardinality(Range(Column(event_data, "user_id"))),
                       analysis_results |-> result]>> \o processed
    /\ view' = [at |-> "returned", response |-> success("Data processed successfully!")]
    /\ UNCHANGED <<engine_vars, accounts, events, stdout>>

NextView ==
    \/ process_data_begin
    \/ process_data_call
    \/ Start
    \/ ProcessUser
    \/ Finish
    \/ process_data_store
    \/ clear_all_data_view

SpecView == InitSite /\ [][NextView]_vars

-----------------------------------------------------------------------------
(* Properties *)

\* the run has returned a report
Reported == pc = "done" /\ event_data # <<>> /\ "summary" \in DOMAIN result

BatchUsers == {event_data[i].user_id : i \in 1..Len(event_data)}

\* the entries of a sequence at the indices in K, in order
RECURSIVE Keep(_, _, _)
Keep(s, i, K) ==
    IF i > Len(s) THEN <<>>
    ELSE (IF i \in K THEN <<s[i]>> ELSE <<>>) \o Keep(s, i + 1, K)

InUnit(f) == f.den > 0 /\ 0 <= f.num /\ f.num <= f.den

\* C1: a run on the empty batch returns exactly {error: "No data to
\* process"}, and has built no DataFrame and no user result.
C1_EmptyBatchReturnsNoData ==
    (pc = "done" /\ event_data = <<>>) =>
        /\ result = [error |-> "No data to process"]
        /\ df = <<>>
        /\ user_results = <<>>

C1_Witness == pc = "done" /\ event_data = <<>> /\ runs = 1

\* C2: in every report, the confidence of every cluster prediction, of every
\* primary prediction, of every location_predictions entry and of the
\* summary lies in [0, 1].
C2_ConfidencesInUnitInterval ==
    Reported =>
        /\ \A i \in 1..Len(result.user_results) :
              LET r == result.user_results[i]
              IN  /\ \A k \in 1..Len(r.cluster_predictions) :
                         InUnit(r.cluster_predictions[k].confidence)
                  /\ r.primary_prediction # None =>
                         InUnit(r.primary_prediction[1].confidence)
        /\ \A u \in DOMAIN result.location_predictions :
              InUnit(result.location_predictions[u].confidence)
        /\ InUnit(result.summary.confidence)

\* a report with two users, one with a cluster prediction of confidence 1
\* and one on the fallback path
C2_Witness ==
    /\ Reported
    /\ \E i \in 1..Len(result.user_results) :
          /\ result.user_results[i].primary_prediction # None
          /\ result.user_results[i].primary_prediction[1].confidence = One
    /\ \E u \in DOMAIN result.location_predictions :
          result.location_predictions[u].prediction_type = "simple_average"

\* the batch without the events DBSCAN labelled -1
NoiseFreeBatch ==
    Keep(event_data, 1, {i \in 1..Len(df) : df[i].cluster # NoiseLabel})

\* C3: events labelled -1 contribute to no cluster prediction and to no
\* cluster_info entry: no entry carries the id -1, each event_count counts
\* non-noise rows only, and the cluster predictions of every user and the
\* whole of cluster_info are what the batch yields with its noise events
\* removed.
C3_NoiseContributesNothing ==
    Reported =>
        LET clean == DataFrame(NoiseFreeBatch)
        IN  /\ \A i \in 1..Len(result.user_results) :
                  LET r == result.user_results[i]
                  IN  /\ \A k \in 1..Len(r.cluster_predictions) :
                             LET p == r.cluster_predictions[k]
                             IN  /\ p.cluster_id # NoiseLabel
                                 /\ p.event_count =
                                        Cardinality({j \in 1..Len(df) :
                                            /\ df[j].user_id = r.user_id
                                            /\ df[j].cluster = p.cluster_id
                                            /\ df[j].cluster # NoiseLabel})
                      /\ r.cluster_predictions =
                             cluster_predictions_of(RowsEq(clean, "user_id", r.user_id))
            /\ \A k \in DOMAIN result.cluster_info :
                  /\ k[2] # NoiseLabel
                  /\ result.cluster_info[k].cluster_id # NoiseLabel
            /\ result.cluster_info = get_cluster_info(clean)

\* a report on a batch in which one user has a noise event and a cluster
C3_Witness ==
    /\ Reported
    /\ \E i \in 1..Len(result.user_results) :
          /\ result.user_results[i].cluster_predictions # <<>>
          /\ \E j \in 1..Len(df) :
                /\ df[j].user_id = result.user_results[i].user_id
                /\ df[j].cluster = NoiseLabel

FracEq(a, b) == a.num * b.den = b.num * a.den

\* the positions (user result, weighted event) of a report
Positions(rep) ==
    {x \in (1..Len(rep.user_results)) \X (1..Len(event_data)) :
        x[2] <= Len(rep.user_results[x[1]].weighted_events)}

LabelAt(rep, x) == rep.user_results[x[1]].weighted_events[x[2]].cluster

\* C4: two runs on the same batch yield the same cluster membership and the
\* same base_weight, time_decay, night_boost and final_weight for every
\* event, whatever the wall clock reads when each run executes.
C4_RerunYieldsSameWeights ==
    (Reported /\ runs >= 2) =>
        /\ Positions(prev) = Positions(result)
        /\ \A x, y \in Positions(result) :
              /\ (LabelAt(prev, x) = NoiseLabel) <=> (LabelAt(result, x) = NoiseLabel)
              /\ (LabelAt(prev, x) = LabelAt(prev, y))
                     <=> (LabelAt(result, x) = LabelAt(result, y))
        /\ \A i \in 1..Len(result.user_results) :
              \A k \in 1..Len(result.user_results[i].weighted_events) :
                  LET a == prev.user_results[i].weighted_events[k]
                      b == result.user_results[i].weighted_events[k]
                  IN  /\ a.base_weight = b.base_weight
                      /\ a.time_decay = b.time_decay
                      /\ a.night_boost = b.night_boost
                      /\ a.final_weight = b.final_weight

\* the weighted events of a user result that lie in one cluster
MembersOf(r, cluster_id) ==
    SelectSeq(r.weighted_events, LAMBDA w : w.cluster = cluster_id)

FinalWeights(members) == [j \in 1..Len(members) |-> members[j].final_weight]

\* C5: the confidence of every cluster prediction is the arithmetic mean of
\* the final_weight of the user's events in that cluster.
C5_ConfidenceIsMeanFinalWeight ==
    Reported =>
        \A i \in 1..Len(result.user_results) :
            LET r == result.user_results[i]
            IN  \A k \in 1..Len(r.cluster_predictions) :
                    LET p == r.cluster_predictions[k]
                        fw == FinalWeights(MembersOf(r, p.cluster_id))
                        total == FracSum(fw)
                    IN  FracEq(p.confidence, Frac(total.num, total.den * Len(fw)))

\* the sum of final_weight times coordinate over the members
WeightedSum(members, f) ==
    FracSum([j \in 1..Len(members) |->
                FracMul(members[j].final_weight, Frac(members[j][f], 1))])

\* C6: predicted_lat and predicted_lon of every cluster prediction are the
\* averages of the members' lat and lon weighted by final_weight (stated
\* where the final weights do not sum to zero).
C6_CentroidWeightedByFinalWeight ==
    Reported =>
        \A i \in 1..Len(result.user_results) :
            LET r == result.user_results[i]
            IN  \A k \in 1..Len(r.cluster_predictions) :
                    LET p == r.cluster_predictions[k]
                        members == MembersOf(r, p.cluster_id)
                        total == FracSum(FinalWeights(members))
                    IN  total.num # 0 =>
                            /\ FracEq(FracMul(p.predicted_lat, total),
                                      WeightedSum(members, "lat"))
                            /\ FracEq(FracMul(p.predicted_lon, total),
                                      WeightedSum(members, "lon"))

\* C7: when every event of a user in a non-noise cluster has final_weight 0,
\* the run still returns a report and the cluster prediction is there, with
\* predicted_lat and predicted_lon the unweighted means of the members'
\* coordinates.
C7_ZeroWeightFallsBackToMean ==
    Reported =>
        /\ "error" \notin DOMAIN result
        /\ \A i \in 1..Len(result.user_results) :
              LET r == result.user_results[i]
              IN  \A c \in {r.weighted_events[j].cluster :
                                j \in 1..Len(r.weighted_events)} \ {NoiseLabel} :
                      LET members == MembersOf(r, c)
                      IN  (\A j \in 1..Len(members) : members[j].final_weight = Zero) =>
                              \E k \in 1..Len(r.cluster_predictions) :
                                  LET p == r.cluster_predictions[k]
                                  IN  /\ p.cluster_id = c
                                      /\ FracEq(p.predicted_lat,
                                                Mean(Column(members, "lat")))
                                      /\ FracEq(p.predicted_lon,
                                                Mean(Column(members, "lon")))

\* the first row of the batch that is the user's and in the cluster
FirstRow(u, c) ==
    CHOOSE j \in 1..Len(df) :
        /\ df[j].user_id = u /\ df[j].cluster = c
        /\ \A m \in 1..Len(df) : (df[m].user_id = u /\ df[m].cluster = c) => j <= m

\* the primary prediction of a user result is one of its cluster predictions
\* and none has a higher confidence
PrimaryIsMaximal(r) ==
    /\ r.primary_prediction # None
    /\ r.primary_prediction[1] \in Range(r.cluster_predictions)
    /\ \A q \in Range(r.cluster_predictions) :
          FracLe(q.confidence, r.primary_prediction[1].confidence)

RawColumn(u, f) ==
    Keep(Column(event_data, f), 1, {i \in 1..Len(event_data) : event_data[i].user_id = u})

HasClusteredEvent(u) ==
    \E j \in 1..Len(df) : df[j].user_id = u /\ df[j].cluster # NoiseLabel

\* C9: the location prediction of a user none of whose events is in a
\* non-noise cluster is the unweighted mean of all the user's raw
\* coordinates, with confidence 0.3, cluster_id None and prediction_type
\* "simple_average"; that of every other user has prediction_type
\* "cluster_based".
C9_FallbackIsSimpleAverage ==
    Reported =>
        \A u \in BatchUsers :
            /\ u \in DOMAIN result.location_predictions
            /\ LET loc == result.location_predictions[u]
               IN  IF HasClusteredEvent(u)
                   THEN loc.prediction_type = "cluster_based"
                   ELSE /\ loc.prediction_type = "simple_average"
                        /\ loc.predicted_lat.num * Len(RawColumn(u, "lat"))
                               = SumSeq(RawColumn(u, "lat")) * loc.predicted_lat.den
                        /\ loc.predicted_lon.num * Len(RawColumn(u, "lon"))
                               = SumSeq(RawColumn(u, "lon")) * loc.predicted_lon.den
                        /\ loc.confidence.num * 10 = 3 * loc.confidence.den
                        /\ loc.cluster_id = None

\* a report with a user on the fallback path and a user with a cluster
C9_Witness ==
    /\ Reported
    /\ \E u, v \in BatchUsers :
          /\ ~HasClusteredEvent(u)
          /\ result.location_predictions[u].prediction_type = "simple_average"
          /\ HasClusteredEvent(v)
          /\ result.location_predictions[v].prediction_type = "cluster_based"

\* the location_predictions entry repeats a cluster prediction
Mirrors(loc, pred) ==
    /\ loc.predicted_lat = pred.predicted_lat
    /\ loc.predicted_lon = pred.predicted_lon
    /\ loc.confidence = pred.confidence
    /\ loc.cluster_id = Some(pred.cluster_id)

OneResultPerUser ==
    /\ Len(result.user_results) = Cardinality(BatchUsers)
    /\ {result.user_results[i].user_id : i \in 1..Len(result.user_results)} = BatchUsers
    /\ DOMAIN result.location_predictions = BatchUsers

FracMean(s) == Frac(FracSum(s).num, FracSum(s).den * Len(s))

WeightedEvents ==
    {result.user_results[x[1]].weighted_events[x[2]] : x \in Positions(result)}

\* the minutes between the instant a weighted event's timestamp denotes and
\* the reference instant
Elapsed(w) == now - (w.timestamp.local - w.timestamp.offset)

\* C12: time_decay does not increase with the time elapsed between the event
\* and the reference instant, is 1 at 0 hours, is 0 at 72 hours and beyond
\* (and the final_weight with it), and is never negative.
C12_DecayMonotoneToZero ==
    Reported =>
        \A v, w \in WeightedEvents :
            /\ Elapsed(v) <= Elapsed(w) => FracLe(w.time_decay, v.time_decay)
            /\ Elapsed(w) = 0 => FracEq(w.time_decay, One)
            /\ Elapsed(w) >= TimeDecayHours * 60 =>
                   FracEq(w.time_decay, Zero) /\ FracEq(w.final_weight, Zero)
            /\ FracLe(Zero, w.time_decay)

\* a report with an event at the reference instant, of time_decay 1, and an
\* event 100 hours old, of time_decay 0 and final_weight 0
C12_Witness ==
    /\ Reported
    /\ \E v, w \in WeightedEvents :
          /\ Elapsed(v) = 0
          /\ FracEq(v.time_decay, One)
          /\ Elapsed(w) = StartNow - Expired
          /\ FracEq(w.time_decay, Zero)
          /\ FracEq(w.final_weight, Zero)

\* C13: the time_decay of every event lies in [0, 1]; an event whose
\* timestamp is later than the reference instant has time_decay exactly 1.
C13_DecayInUnitInterval ==
    Reported =>
        \A w \in WeightedEvents :
            /\ InUnit(w.time_decay)
            /\ Elapsed(w) < 0 => FracEq(w.time_decay, One)

\* the sum of the values of a dict of counts
RECURSIVE SumValues(_)
SumValues(f) ==
    IF DOMAIN f = {} THEN 0
    ELSE LET k == CHOOSE x \in DOMAIN f : TRUE
         IN  f[k] + SumValues([x \in DOMAIN f \ {k} |-> f[x]])

\* C14: in the report on a valid non-empty batch the counts of
\* summary.event_distribution add up to the number of input events, which
\* is summary.total_events.
C14_DistributionSumsToEventCount ==
    Reported =>
        /\ SumValues(result.summary.event_distribution) = Len(event_data)
        /\ result.summary.total_events = Len(event_data)

\* a report on three events of two event types
C14_Witness ==
    /\ Reported
    /\ Len(event_data) = 3
    /\ Cardinality(DOMAIN result.summary.event_distribution) = 2
    /\ SumValues(result.summary.event_distribution) = 3

\* the number of events of the batch that are the user's
EventCount(u) == Cardinality({i \in 1..Len(event_data) : event_data[i].user_id = u})

\* the positions of the no_clusters anomalies of the report that name a user
NoClustersEntries(u) ==
    {k \in 1..Len(result.summary.anomalies) :
        /\ result.summary.anomalies[k].type = "no_clusters"
        /\ result.summary.anomalies[k].user_id = u}

\* C15: the anomaly list has a no_clusters anomaly for a user, exactly one,
\* with the user's id and the user's total event count, if and only if the
\* user has at least 5 events in the batch and none of them is in a
\* non-noise cluster.
C15_NoClustersIffFiveUnclustered ==
    Reported =>
        /\ \A u \in BatchUsers :
              /\ NoClustersEntries(u) # {} <=>
                     (EventCount(u) >= 5 /\ ~HasClusteredEvent(u))
              /\ Cardinality(NoClustersEntries(u)) <= 1
              /\ \A k \in NoClustersEntries(u) :
                     result.summary.anomalies[k].event_count = EventCount(u)
        /\ \A k \in 1..Len(result.summary.anomalies) :
              result.summary.anomalies[k].type = "no_clusters" =>
                  result.summary.anomalies[k].user_id \in BatchUsers

\* a report on five mutually distant events of one user, with the
\* no_clusters anomaly of event_count 5 for that user
C15_Witness ==
    /\ Reported
    /\ \E u \in BatchUsers :
          /\ EventCount(u) = 5
          /\ ~HasClusteredEvent(u)
          /\ \E k \in NoClustersEntries(u) :
                 result.summary.anomalies[k].event_count = 5

\* the event types of the events DBSCAN labelled c
TypesIn(c) == {df[j].event_type : j \in {i \in 1..Len(df) : df[i].cluster = c}}

\* the positions of the mixed_event_cluster anomalies of the report that
\* name a cluster
MixedEntries(c) ==
    {k \in 1..Len(result.summary.anomalies) :
        /\ result.summary.anomalies[k].type = "mixed_event_cluster"
        /\ result.summary.anomalies[k].cluster_id = c}

\* C16: the anomaly list has a mixed_event_cluster anomaly for a cluster,
\* exactly one, if and only if the cluster is not the noise label, one of
\* its events (of any user) has type upi and its events have more than 2
\* distinct event types; no such anomaly names the noise label.
C16_MixedIffUpiAmongThreeTypes ==
    Reported =>
        /\ \A c \in Range(Column(df, "cluster")) :
              /\ MixedEntries(c) # {} <=>
                     /\ c # -1
                     /\ "upi" \in TypesIn(c)
                     /\ Cardinality(TypesIn(c)) > 2
              /\ Cardinality(MixedEntries(c)) <= 1
              /\ \A k \in MixedEntries(c) :
                     Range(result.summary.anomalies[k].event_types) = TypesIn(c)
        /\ \A k \in 1..Len(result.summary.anomalies) :
              result.summary.anomalies[k].type = "mixed_event_cluster" =>
                  result.summary.anomalies[k].cluster_id
                      \in Range(Column(df, "cluster")) \ {-1}

\* a report with a mixed_event_cluster anomaly for a cluster of events of
\* two users
C16_Witness ==
    /\ Reported
    /\ \E c \in Range(Column(df, "cluster")) :
          /\ MixedEntries(c) # {}
          /\ Cardinality({df[j].user_id : j \in {i \in 1..Len(df) : df[i].cluster = c}}) = 2

\* the fields every record of a batch is required to have
RequiredFields == {"user_id", "event_type", "lat", "lon", "timestamp"}

\* the fields some record of the batch lacks
MissingFields ==
    {f \in RequiredFields : \E i \in 1..Len(event_data) : f \notin DOMAIN event_data[i]}

\* the results the except clause returns for an internal failure
InternalFailures ==
    {processing_failed(e) :
        e \in mixed_offset_errors \cup nan_input_errors
                  \cup {key_error(f) : f \in RequiredFields}
                  \cup {index_error(f) : f \in RequiredFields}}

\* C17: when a record of the batch lacks a required field the run returns
\* an error only, no report, and the error is a validation error, not one
\* of the results of an internal failure.
C17_MissingFieldIsValidationError ==
    (pc = "done" /\ MissingFields # {}) =>
        /\ DOMAIN result = {"error"}
        /\ result \notin InternalFailures

\* the batch makes the timestamp parse, DBSCAN or the per-user weighting
\* raise: timestamps written in different offsets, a record without lat, or
\* no record with an event_type
Faulty ==
    /\ event_data # <<>>
    /\ \/ \E i, j \in 1..Len(event_data) :
              event_data[i].timestamp.offset # event_data[j].timestamp.offset
       \/ "lat" \in MissingFields
       \/ \A i \in 1..Len(event_data) : "event_type" \notin DOMAIN event_data[i]

\* C18: no run ends with an exception leaving the entry point; a finished
\* run has returned a report or an object carrying an error message only,
\* and on a batch that makes a step raise it has returned the error object
\* of the except clause.
C18_FaultsReturnedAsErrors ==
    /\ pc \in {"idle", "users", "done"}
    /\ pc = "done" => ("summary" \in DOMAIN result \/ DOMAIN result = {"error"})
    /\ (pc = "done" /\ Faulty) => result \in InternalFailures

\* a run in which the per-user weighting raised KeyError and which returned
\* the error object carrying its message
C18_Witness ==
    /\ pc = "done"
    /\ Faulty
    /\ df # <<>>
    /\ result = [error |-> "Processing failed: 'event_type'"]

\* the hour of a weighted event's instant on the India Standard Time clock
IstHour(w) ==
    ((w.timestamp.local - w.timestamp.offset + IstOffsetMinutes) \div 60) % 24

\* C19: the night_boost of an event is 1.2 exactly when the hour of its
\* instant in India Standard Time is one of 22, 23, 0, ..., 6, and 1.0
\* otherwise, whatever offset the input timestamp is written in.
C19_NightBoostByIstHour ==
    Reported =>
        \A w \in WeightedEvents :
            IF IstHour(w) \in {22, 23} \cup 0..6
            THEN w.night_boost.num * 10 = 12 * w.night_boost.den
            ELSE w.night_boost.num = w.night_boost.den

\* the base weight of an event type, in tenths
BaseTenths(t) ==
    IF t = "upi" THEN 10
    ELSE IF t = "app_open" THEN 8
    ELSE IF t = "login" THEN 6
    ELSE 5

\* C20: the base_weight of every event is 1.0 for upi, 0.8 for app_open,
\* 0.6 for login and 0.5 for any other event type, whose events are
\* weighted like the others, and the final_weight of every event is
\* base_weight x time_decay x night_boost.
C20_BaseWeightTableAndProduct ==
    Reported =>
        /\ Cardinality(Positions(result)) = Len(event_data)
        /\ \A w \in WeightedEvents :
              /\ w.base_weight.num * 10 = BaseTenths(w.event_type) * w.base_weight.den
              /\ FracEq(w.final_weight,
                        FracMul(FracMul(w.base_weight, w.time_decay), w.night_boost))

\* a report with an event of an unrecognized type, of base_weight 0.5, whose
\* time_decay is strictly between 0 and 1 and whose night_boost is 1.2
C20_Witness ==
    /\ Reported
    /\ \E w \in WeightedEvents :
          /\ w.event_type = "transfer"
          /\ w.base_weight.num * 2 = w.base_weight.den
          /\ FracLt(Zero, w.time_decay)
          /\ FracLt(w.time_decay, One)
          /\ FracLt(One, w.night_boost)
          /\ FracLt(Zero, w.final_weight)

\* event j of the batch lies within 0.01 degrees of event i, in the plane
Close(i, j) ==
    (event_data[i].lat - event_data[j].lat) * (event_data[i].lat - event_data[j].lat)
        + (event_data[i].lon - event_data[j].lon) * (event_data[i].lon - event_data[j].lon)
        <= 10 * 10

\* at least 2 events of the batch, event i included, lie within eps of it
CorePoint(i) == Cardinality({j \in 1..Len(event_data) : Close(i, j)}) >= 2

\* C21: two core points within eps of each other have the same cluster id;
\* a point within eps of a core point is in a cluster; a point is labelled
\* -1 if and only if it lies within eps of no core point; two points of one
\* cluster are linked by a chain of core points each within eps of the next.
C21_DensityClustering ==
    (pc \in {"users", "done"} /\ df # <<>>) =>
        /\ Len(df) = Len(event_data)
        /\ \A i, j \in 1..Len(df) :
              (CorePoint(i) /\ CorePoint(j) /\ Close(i, j)) => df[i].cluster = df[j].cluster
        /\ \A i \in 1..Len(df) :
              df[i].cluster = -1 <=>
                  ~ \E j \in 1..Len(df) : CorePoint(j) /\ Close(j, i)
        /\ \A i \in 1..Len(df) :
              df[i].cluster # -1 =>
                  \E j \in 1..Len(df) :
                      CorePoint(j) /\ Close(j, i) /\ df[j].cluster = df[i].cluster

\* a batch in which the two outer points of the row, 0.016 degrees apart,
\* are in one cluster through the middle one, and a fourth point is noise
C21_Witness ==
    /\ pc = "done"
    /\ df # <<>>
    /\ \E i, j, k \in 1..Len(df) :
          /\ ~Close(i, j)
          /\ df[i].cluster = df[j].cluster
          /\ df[i].cluster # -1
          /\ df[k].cluster = -1

\* C22: every event of one run, whichever user it belongs to, is decayed
\* against one and the same reference instant: two events of the report
\* that denote the same instant have the same time_decay.
C22_OneReferenceInstantPerRun ==
    Reported =>
        \A v, w \in WeightedEvents :
            (v.timestamp.local - v.timestamp.offset = w.timestamp.local - w.timestamp.offset)
                => FracEq(v.time_decay, w.time_decay)

\* the events DBSCAN gave the label c
Labelled(c) == {i \in 1..Len(df) : df[i].cluster = c}

\* the non-noise labels of the batch
ClusterIds == Range(Column(df, "cluster")) \ {-1}

\* C23: every event of the batch has one cluster assignment, a non-negative
\* id or -1; summary.noise_points is the number of events labelled -1,
\* summary.cluster_distribution holds the number of events of every
\* non-noise id, the two add up to summary.total_events, and
\* summary.total_clusters is the number of distinct non-noise ids.
C23_AssignmentPartitionsBatch ==
    Reported =>
        /\ Len(df) = Len(event_data)
        /\ \A i \in 1..Len(df) : df[i].cluster >= -1
        /\ result.summary.noise_points = Cardinality(Labelled(-1))
        /\ DOMAIN result.summary.cluster_distribution = ClusterIds
        /\ \A c \in ClusterIds :
              result.summary.cluster_distribution[c] = Cardinality(Labelled(c))
        /\ result.summary.noise_points + SumValues(result.summary.cluster_distribution)
               = result.summary.total_events
        /\ result.summary.total_events = Len(event_data)
        /\ result.summary.total_clusters = Cardinality(ClusterIds)

\* a report on a batch with a cluster of three events and a noise point
C23_Witness ==
    /\ Reported
    /\ result.summary.total_clusters = 1
    /\ result.summary.noise_points = 1
    /\ SumValues(result.summary.cluster_distribution) = 3

\* C24: user_results has one entry per distinct user_id of the batch; the
\* entry's total_events is the number of the user's input events and its
\* weighted_events has one entry per such event, in input order; the
\* total_events of all users add up to summary.total_events, and
\* summary.total_users is the number of user_results.
C24_OneResultPerUserInInputOrder ==
    Reported =>
        /\ OneResultPerUser
        /\ \A i \in 1..Len(result.user_results) :
              LET r == result.user_results[i]
              IN  /\ r.total_events = EventCount(r.user_id)
                  /\ Len(r.weighted_events) = EventCount(r.user_id)
                  /\ \A k \in 1..Len(r.weighted_events) :
                        /\ r.weighted_events[k].event_type = RawColumn(r.user_id, "event_type")[k]
                        /\ r.weighted_events[k].timestamp = RawColumn(r.user_id, "timestamp")[k]
                        /\ r.weighted_events[k].lat = RawColumn(r.user_id, "lat")[k]
                        /\ r.weighted_events[k].lon = RawColumn(r.user_id, "lon")[k]
        /\ SumSeq([i \in 1..Len(result.user_results) |-> result.user_results[i].total_events])
               = result.summary.total_events
        /\ result.summary.total_users = Len(result.user_results)

\* a report on two users, one of them with two events of different types
C24_Witness ==
    /\ Reported
    /\ Len(result.user_results) = 2
    /\ \E i \in 1..Len(result.user_results) :
          /\ result.user_results[i].total_events = 2
          /\ result.user_results[i].weighted_events[1].event_type
                 # result.user_results[i].weighted_events[2].event_type

\* the rows of the DataFrame that are the user's and carry the label c
UserLabelled(u, c) == {i \in 1..Len(df) : df[i].user_id = u /\ df[i].cluster = c}

\* the non-noise labels among the user's rows
UserClusterIds(u) == {df[i].cluster : i \in {j \in 1..Len(df) : df[j].user_id = u}} \ {-1}

\* C25: for every user, cluster_predictions has one entry per non-noise
\* cluster the user has an event in, none for -1 and none twice; an entry's
\* event_count is the number of the user's events in the cluster;
\* clusters_involved is the number of entries; the event_counts and the
\* user's noise events add up to the user's total_events.
C25_OnePredictionPerUserCluster ==
    Reported =>
        \A i \in 1..Len(result.user_results) :
            LET r == result.user_results[i]
                preds == r.cluster_predictions
            IN  /\ {preds[k].cluster_id : k \in 1..Len(preds)} = UserClusterIds(r.user_id)
                /\ Len(preds) = Cardinality(UserClusterIds(r.user_id))
                /\ \A k \in 1..Len(preds) :
                       preds[k].event_count
                           = Cardinality(UserLabelled(r.user_id, preds[k].cluster_id))
                /\ r.clusters_involved = Len(preds)
                /\ SumSeq([k \in 1..Len(preds) |-> preds[k].event_count])
                       + Cardinality(UserLabelled(r.user_id, -1)) = r.total_events

\* a report with a user who has one event in each of two clusters
C25_Witness ==
    /\ Reported
    /\ \E i \in 1..Len(result.user_results) :
          /\ Len(result.user_results[i].cluster_predictions) = 2
          /\ result.user_results[i].cluster_predictions[1].event_count = 1
          /\ result.user_results[i].clusters_involved = 2

\* a fraction lies between two integers
Between(lo, f, hi) == lo * f.den <= f.num /\ f.num <= hi * f.den

\* the bounding box is the least and greatest lat and lon of the events
\* labelled c
BoxOf(box, c) ==
    /\ \A i \in Labelled(c) :
          /\ box.min_lat <= df[i].lat /\ df[i].lat <= box.max_lat
          /\ box.min_lon <= df[i].lon /\ df[i].lon <= box.max_lon
    /\ \E i \in Labelled(c) : df[i].lat = box.min_lat
    /\ \E i \in Labelled(c) : df[i].lat = box.max_lat
    /\ \E i \in Labelled(c) : df[i].lon = box.min_lon
    /\ \E i \in Labelled(c) : df[i].lon = box.max_lon

\* C26: cluster_info has one entry per non-noise cluster id, under the key
\* cluster_<id>, over the events of all users in the cluster: its
\* event_count is the cluster's count in summary.cluster_distribution, its
\* bounding box is the min and max lat and lon of the members, so that
\* every member and the centroid lie inside it, and its users are the
\* distinct user ids of the members.
C26_ClusterInfoPerCluster ==
    Reported =>
        /\ DOMAIN result.cluster_info = {<<"cluster_", c>> : c \in ClusterIds}
        /\ \A c \in ClusterIds :
              LET info == result.cluster_info[<<"cluster_", c>>]
              IN  /\ info.cluster_id = c
                  /\ info.event_count = result.summary.cluster_distribution[c]
                  /\ info.event_count = Cardinality(Labelled(c))
                  /\ BoxOf(info.bounding_box, c)
                  /\ Between(info.bounding_box.min_lat, info.centroid.lat,
                             info.bounding_box.max_lat)
                  /\ Between(info.bounding_box.min_lon, info.centroid.lon,
                             info.bounding_box.max_lon)
                  /\ Range(info.users) = {df[i].user_id : i \in Labelled(c)}
                  /\ Len(info.users) = Cardinality(Range(info.users))
                  /\ info.user_count = Len(info.users)

\* a report with a cluster of events of two users whose bounding box spans
\* 0.016 degrees of latitude, and a noise point
C26_Witness ==
    /\ Reported
    /\ Labelled(-1) # {}
    /\ \E c \in ClusterIds :
          /\ Len(result.cluster_info[<<"cluster_", c>>].users) = 2
          /\ result.cluster_info[<<"cluster_", c>>].bounding_box.max_lat
                 - result.cluster_info[<<"cluster_", c>>].bounding_box.min_lat = 16

\* the events linked to the events of S by a chain of events each within
\* eps of the next
RECURSIVE Linked(_)
Linked(S) ==
    LET T == S \cup {j \in 1..Len(event_data) : \E i \in S : Close(i, j)}
    IN  IF T = S THEN S ELSE Linked(T)

\* the batch with the events at positions i and j exchanged
Exchanged(i, j) ==
    [k \in 1..Len(event_data) |->
        IF k = i THEN event_data[j] ELSE IF k = j THEN event_data[i] ELSE event_data[k]]

\* the batch with the user id of the event at position i replaced
Reassigned(i, u) ==
    [k \in 1..Len(event_data) |->
        IF k = i THEN [event_data[k] EXCEPT !.user_id = u] ELSE event_data[k]]

\* two labellings of the same events give the same partition into clusters
\* and noise
SamePartition(a, b) ==
    \A i, j \in DOMAIN a :
        /\ (a[i] = -1) <=> (b[i] = -1)
        /\ (a[i] = a[j]) <=> (b[i] = b[j])

\* C27: every event that is not noise is itself a core point; every
\* cluster has at least 2 events; two events are in one cluster exactly
\* when a chain of events each within eps of the next links them, and an
\* event is noise exactly when no other event is within eps of it; the
\* partition into clusters and noise is the same when two neighbouring
\* events of the batch change places and when an event gets another user id.
C27_ClustersAreLinkedComponents ==
    Reported =>
        /\ \A i \in 1..Len(df) : df[i].cluster # -1 => CorePoint(i)
        /\ \A c \in ClusterIds : Cardinality(Labelled(c)) >= 2
        /\ \A i \in 1..Len(df) :
              /\ df[i].cluster = -1 <=> Linked({i}) = {i}
              /\ df[i].cluster # -1 => Labelled(df[i].cluster) = Linked({i})
        /\ \A i \in 1..(Len(df) - 1) :
              LET j == i + 1
                  labels == fit_predict(Exchanged(i, j))
              IN  SamePartition([k \in 1..Len(df) |-> df[k].cluster],
                                [k \in 1..Len(df) |->
                                    IF k = i THEN labels[j]
                                    ELSE IF k = j THEN labels[i] ELSE labels[k]])
        /\ \A i \in 1..Len(df) : \A u \in Users \ {df[i].user_id} :
              SamePartition([k \in 1..Len(df) |-> df[k].cluster],
                            fit_predict(Reassigned(i, u)))

\* a report on a batch whose cluster ids change when its first two events
\* change places, the partition staying the same
C27_Witness ==
    /\ Reported
    /\ Cardinality(ClusterIds) = 2
    /\ fit_predict(Exchanged(1, 2))[1] # df[2].cluster

\* the keys of a report
ReportKeys ==
    {"summary", "user_results", "cluster_info", "location_predictions",
     "algorithm_parameters"}

\* C28: every result of a run has one of two shapes: an error result whose
\* only key is error, or a report with the keys summary, user_results,
\* cluster_info, location_predictions and algorithm_parameters and no error
\* key; so exactly one of error and location_predictions is a key of it.
C28_ErrorOrReport ==
    pc = "done" =>
        /\ DOMAIN result = {"error"} \/ DOMAIN result = ReportKeys
        /\ ("error" \in DOMAIN result) # ("location_predictions" \in DOMAIN result)
        /\ event_data = <<>> => result = [error |-> "No data to process"]

\* a run on a batch of timestamps written in two offsets, which returned
\* an error result
C28_Witness ==
    /\ pc = "done"
    /\ \E i, j \in 1..Len(event_data) :
          event_data[i].timestamp.offset # event_data[j].timestamp.offset
    /\ DOMAIN result = {"error"}

\* C29: process_data reports success and stores a ProcessedData row only
\* when the engine returned a report without an error key; when the engine
\* returned an error result the response is a failure.
C29_SuccessOnlyForReports ==
    /\ (view.at = "returned" /\ pc = "done") =>
           (view.response[1].success <=> "error" \notin DOMAIN result)
    /\ \A k \in 1..Len(processed) : "error" \notin DOMAIN processed[k].analysis_results

\* the invocation names no deletion flag, or it is without --force and the
\* answer at its prompt is not yes or y in any letter case
Declined(options, confirm) ==
    \/ \A flag \in {"all", "users", "events", "processed", "old"} : ~options[flag]
    \/ ~options["force"] /\ confirm \notin {"yes", "YES", "Yes", "y", "Y"}

\* C30: no clear_data invocation, whatever its flags and the answer at its
\* prompt, and no clear-all-data or delete-all-users post removes an
\* account that is a superuser or an authority; an invocation with no
\* deletion flag, or one without --force whose answer is not yes or y,
\* deletes nothing.
C30_PrivilegedAccountsSurvive ==
    [][/\ \A a \in accounts : (a.is_superuser \/ a.is_authority) => a \in accounts'
       /\ \A options \in Options, confirm \in Answers :
              (Declined(options, confirm) /\ handle(options, confirm))
                  => UNCHANGED <<accounts, events, processed>>]_vars

\* the tables after clear_data --all has deleted: an authority and a
\* superuser are present, no regular account, no event, no processed row
C30_Witness ==
    /\ stdout # <<>>
    /\ stdout[1] = "Successfully cleared all data"
    /\ \E a, b \in accounts : a.is_authority /\ ~a.is_superuser /\ b.is_superuser
    /\ \A a \in accounts : a.is_superuser \/ a.is_authority
    /\ events = <<>>
    /\ processed = <<>>

====
